---- MODULE Spec2Model ----
(***************************************************************************)
(* Model of notion/endpoints/asynchronous.py: the asynchronous endpoint    *)
(* classes of the Notion SDK.  Every endpoint method builds one request    *)
(* from its arguments, awaits client.request(...) and decodes the reply.   *)
(*                                                                         *)
(* A call is a coroutine with three positions:                             *)
(*   idle --Call--> awaiting --ClientRespond--> ready --Resume--> done     *)
(* "awaiting" is the suspension at `await self.client.request(...)`,       *)
(* "ready" is the awaited future completed but the coroutine not yet       *)
(* rescheduled.                                                            *)
(***************************************************************************)
EXTENDS Integers, Sequences, FiniteSets, TLC

VARIABLES
    client,     \* endpoint object -> its self.client attribute
    calls,      \* call slot -> the coroutine's frame (position, arguments, awaited outcome, result)
    requests    \* call slot -> the requests the client received from that invocation, in order

vars == <<client, calls, requests>>

----------------------------------------------------------------------------
(* Bounds *)

\* number of keyword arguments a caller passes in one call (specification Spec)
MaxKwargs == 2
\* number of endpoint calls in flight at once (specification SpecConc)
NumCalls == 2

----------------------------------------------------------------------------
(* Python values *)

\* Python's None (also what json decodes `null` to)
None == "None"

\* an omitted optional mapping argument of request(): query=None / body=None
NoDict == [tag |-> "None"]
\* a dict passed as a mapping argument
Dict(d) == [tag |-> "dict", d |-> d]

\* dict.get(key, default)
Get(d, key, default) == IF key \in DOMAIN d THEN d[key] ELSE default

\* "{type}".format(type=v): str(v); str(None) is the text "None"
Format(v) == IF v = None THEN "None" ELSE v

\* notion.helpers.pick(base, *keys): the entries of base whose key is one of keys
pick(base, keys) == [k \in (keys \cap DOMAIN base) |-> base[k]]

----------------------------------------------------------------------------
(* Values the environment supplies *)

TheClient == "client"
Endpoints == {"blocks", "blocks.children", "databases", "pages", "users", "search"}

Methods == {"blocks.children.append", "blocks.children.list",
            "databases.create", "databases.list", "databases.query", "databases.retrieve",
            "pages.create", "pages.retrieve", "pages.update",
            "users.list", "users.retrieve", "search"}

\* the endpoint object a method is bound to
EndpointOf(m) ==
    CASE m \in {"blocks.children.append", "blocks.children.list"} -> "blocks.children"
      [] m \in {"databases.create", "databases.list", "databases.query", "databases.retrieve"} -> "databases"
      [] m \in {"pages.create", "pages.retrieve", "pages.update"} -> "pages"
      [] m \in {"users.list", "users.retrieve"} -> "users"
      [] OTHER -> "search"

\* methods that take a positional identifier
WithId == {"blocks.children.append", "blocks.children.list", "databases.query",
           "databases.retrieve", "pages.retrieve", "pages.update", "users.retrieve"}

NoId == "-"
Ids == {"id1", "id2"}
IdsOf(m) == IF m \in WithId THEN Ids ELSE {NoId}

\* keyword names a caller may pass: every name some method picks, auth, and one no method knows
Keys == {"children", "start_cursor", "page_size", "filter", "sorts", "parent",
         "properties", "archived", "query", "sort", "auth", "bogus"}
Values == {"v1", "v2"}

\* **kwargs dicts with at most n entries
KwargsUpTo(n) ==
    UNION {[S -> Values] : S \in {T \in SUBSET Keys : Cardinality(T) <= n}}

\* notion.types.UserType
UserType == [BOT |-> "bot", PERSON |-> "person"]

\* notion.types.BLOCK_MAPPING: block type -> model class
BLOCK_MAPPING == [paragraph |-> "ParagraphBlock", heading_1 |-> "HeadingOneBlock"]

\* errors client.request may raise: transport failure, non-2xx response
ClientErrors == {[type |-> "TransportError", args |-> <<"timeout">>],
                 [type |-> "APIResponseError", args |-> <<"404">>]}

\* JSON objects client.request may return
JsonBodies ==
    {[type |-> t] : t \in {None, "bot", "person", "robot", "paragraph", "heading_1"}}
    \cup {[has_more |-> b] : b \in BOOLEAN}

\* outcome of the awaited client.request
Raised(e) == [kind |-> "raise", exc |-> e]
Returned(v) == [kind |-> "return", value |-> v]
Outcomes == {Raised(e) : e \in ClientErrors} \cup {Returned(j) : j \in JsonBodies}

----------------------------------------------------------------------------
(* client.request(path, method, query=None, body=None, auth=None) *)

\* the keyword arguments of one client.request call
Request(path, method, query, body, auth) ==
    [path |-> path, method |-> method, query |-> query, body |-> body, auth |-> auth]

\* pydantic's cls.parse_obj(obj): a fresh instance of cls built from the payload
parse_obj(cls, obj) == [cls |-> cls, obj |-> obj]

\* `raise ValueError(message)`; the message is kept as its literal and formatted parts
RaiseValueError(parts) == Raised([type |-> "ValueError", args |-> parts])

----------------------------------------------------------------------------
(* BlocksChildrenAsyncEndpoint *)

BlocksChildrenAsyncEndpoint_append_request(block_id, kwargs) ==
    Request(<<"blocks/", block_id, "/children">>, "PATCH",
            NoDict, Dict(pick(kwargs, {"children"})), None)

\* append testing only for a missing type: an unknown type falls back to the base class
BlocksChildrenAsyncEndpoint_append_decode_fallback(response) ==
    LET block_type == Get(response, "type", None)
    IN  IF block_type = None
        THEN RaiseValueError(<<"Block type not supported. Check for Notion-SDK updates.">>)
        ELSE IF block_type \in DOMAIN BLOCK_MAPPING
        THEN Returned(parse_obj(BLOCK_MAPPING[block_type], response))
        ELSE Returned(parse_obj("Block", response))

BlocksChildrenAsyncEndpoint_append_decode(response) ==
    LET block_type == Get(response, "type", None)
    IN  IF block_type = None \/ block_type \notin DOMAIN BLOCK_MAPPING
        THEN RaiseValueError(<<"Block type not supported. Check for Notion-SDK updates.">>)
        ELSE Returned(parse_obj(BLOCK_MAPPING[block_type], response))

BlocksChildrenAsyncEndpoint_list_request(block_id, kwargs) ==
    Request(<<"blocks/", block_id, "/children">>, "GET",
            Dict(pick(kwargs, {"start_cursor", "page_size"})), NoDict,
            Get(kwargs, "auth", None))

BlocksChildrenAsyncEndpoint_list_decode(response) ==
    Returned(parse_obj("PaginatedList[Block]", response))

----------------------------------------------------------------------------
(* DatabasesAsyncEndpoint *)

DatabasesAsyncEndpoint_create_request(kwargs) ==
    Request(<<"/databases">>, "POST",
            Dict(pick(kwargs, {"start_cursor"})), NoDict,
            Get(kwargs, "auth", None))

DatabasesAsyncEndpoint_create_decode(response) ==
    Returned(parse_obj("Database", response))

DatabasesAsyncEndpoint_list_request(kwargs) ==
    Request(<<"/databases">>, "GET",
            Dict(pick(kwargs, {"start_cursor", "page_size"})), NoDict,
            Get(kwargs, "auth", None))

DatabasesAsyncEndpoint_list_decode(response) ==
    Returned(parse_obj("PaginatedList[Database]", response))

\* query with "sorts" left out of the picked names
DatabasesAsyncEndpoint_query_request_no_sorts(database_id, kwargs) ==
    Request(<<"/databases/", database_id, "/query">>, "POST",
            NoDict, Dict(pick(kwargs, {"filter", "start_cursor", "page_size"})),
            Get(kwargs, "auth", None))

DatabasesAsyncEndpoint_query_request(database_id, kwargs) ==
    Request(<<"/databases/", database_id, "/query">>, "POST",
            NoDict, Dict(pick(kwargs, {"filter", "sorts", "start_cursor", "page_size"})),
            Get(kwargs, "auth", None))

DatabasesAsyncEndpoint_query_decode(response) ==
    Returned(parse_obj("PaginatedList[Page]", response))

DatabasesAsyncEndpoint_retrieve_request(database_id, kwargs) ==
    Request(<<"/databases/", database_id>>, "GET", NoDict, NoDict,
            Get(kwargs, "auth", None))

DatabasesAsyncEndpoint_retrieve_decode(response) ==
    Returned(parse_obj("Database", response))

----------------------------------------------------------------------------
(* PagesAsyncEndpoint *)

PagesAsyncEndpoint_create_request(kwargs) ==
    Request(<<"/pages">>, "POST",
            NoDict, Dict(pick(kwargs, {"parent", "properties", "children"})),
            Get(kwargs, "auth", None))

PagesAsyncEndpoint_create_decode(response) ==
    Returned(parse_obj("Page", response))

PagesAsyncEndpoint_retrieve_request(page_id, kwargs) ==
    Request(<<"pages/", page_id>>, "GET", NoDict, NoDict,
            Get(kwargs, "auth", None))

PagesAsyncEndpoint_retrieve_decode(response) ==
    Returned(parse_obj("Page", response))

\* update with the whitelist forgotten: the caller's kwargs go out as the body
PagesAsyncEndpoint_update_request_unfiltered(page_id, kwargs) ==
    Request(<<"pages/", page_id>>, "PATCH", NoDict, Dict(kwargs),
            Get(kwargs, "auth", None))

PagesAsyncEndpoint_update_request(page_id, kwargs) ==
    Request(<<"pages/", page_id>>, "PATCH",
            NoDict, Dict(pick(kwargs, {"archived", "properties"})),
            Get(kwargs, "auth", None))

PagesAsyncEndpoint_update_decode(response) ==
    Returned(parse_obj("Page", response))

----------------------------------------------------------------------------
(* UsersAsyncEndpoint *)

UsersAsyncEndpoint_list_request(kwargs) ==
    Request(<<"/users">>, "GET",
            Dict(pick(kwargs, {"start_cursor", "page_size"})), NoDict,
            Get(kwargs, "auth", None))

UsersAsyncEndpoint_list_decode(response) ==
    Returned(parse_obj("PaginatedList[User]", response))

UsersAsyncEndpoint_retrieve_request(user_id, kwargs) ==
    Request(<<"/users/", user_id>>, "GET", NoDict, NoDict,
            Get(kwargs, "auth", None))

\* retrieve with the second test dropped: whatever is not a bot is decoded as a person
UsersAsyncEndpoint_retrieve_decode_else_person(response) ==
    LET user_type == Get(response, "type", None)
    IN  IF user_type = UserType.BOT
        THEN Returned(parse_obj("BotUser", response))
        ELSE Returned(parse_obj("PersonUser", response))

UsersAsyncEndpoint_retrieve_decode(response) ==
    LET user_type == Get(response, "type", None)
    IN  IF user_type = UserType.BOT
        THEN Returned(parse_obj("BotUser", response))
        ELSE IF user_type = UserType.PERSON
        THEN Returned(parse_obj("PersonUser", response))
        ELSE RaiseValueError(<<"Could not decode User object with type ", Format(user_type)>>)

----------------------------------------------------------------------------
(* SearchAsyncEndpoint *)

SearchAsyncEndpoint_call_request(kwargs) ==
    Request(<<"/search">>, "POST",
            NoDict, Dict(pick(kwargs, {"query", "sort", "filter", "start_cursor", "page_size"})),
            Get(kwargs, "auth", None))

SearchAsyncEndpoint_call_decode(response) ==
    Returned(parse_obj("PaginatedList[Union[Page, Database]]", response))

----------------------------------------------------------------------------
(* Dispatch on the method called *)

\* the request a method sends, from its own arguments
RequestOf(m, id, kwargs) ==
    CASE m = "blocks.children.append" -> BlocksChildrenAsyncEndpoint_append_request(id, kwargs)
      [] m = "blocks.children.list"   -> BlocksChildrenAsyncEndpoint_list_request(id, kwargs)
      [] m = "databases.create"       -> DatabasesAsyncEndpoint_create_request(kwargs)
      [] m = "databases.list"         -> DatabasesAsyncEndpoint_list_request(kwargs)
      [] m = "databases.query"        -> DatabasesAsyncEndpoint_query_request(id, kwargs)
      [] m = "databases.retrieve"     -> DatabasesAsyncEndpoint_retrieve_request(id, kwargs)
      [] m = "pages.create"           -> PagesAsyncEndpoint_create_request(kwargs)
      [] m = "pages.retrieve"         -> PagesAsyncEndpoint_retrieve_request(id, kwargs)
      [] m = "pages.update"           -> PagesAsyncEndpoint_update_request(id, kwargs)
      [] m = "users.list"             -> UsersAsyncEndpoint_list_request(kwargs)
      [] m = "users.retrieve"         -> UsersAsyncEndpoint_retrieve_request(id, kwargs)
      [] m = "search"                 -> SearchAsyncEndpoint_call_request(kwargs)

\* what a method does with the JSON value its request returned
DecodeOf(m, response) ==
    CASE m = "blocks.children.append" -> BlocksChildrenAsyncEndpoint_append_decode(response)
      [] m = "blocks.children.list"   -> BlocksChildrenAsyncEndpoint_list_decode(response)
      [] m = "databases.create"       -> DatabasesAsyncEndpoint_create_decode(response)
      [] m = "databases.list"         -> DatabasesAsyncEndpoint_list_decode(response)
      [] m = "databases.query"        -> DatabasesAsyncEndpoint_query_decode(response)
      [] m = "databases.retrieve"     -> DatabasesAsyncEndpoint_retrieve_decode(response)
      [] m = "pages.create"           -> PagesAsyncEndpoint_create_decode(response)
      [] m = "pages.retrieve"         -> PagesAsyncEndpoint_retrieve_decode(response)
      [] m = "pages.update"           -> PagesAsyncEndpoint_update_decode(response)
      [] m = "users.list"             -> UsersAsyncEndpoint_list_decode(response)
      [] m = "users.retrieve"         -> UsersAsyncEndpoint_retrieve_decode(response)
      [] m = "search"                 -> SearchAsyncEndpoint_call_decode(response)

\* the await wrapped in `except Exception: response = {}`: the error is swallowed and
\* the decoding runs on an empty payload
AfterAwait_swallow(m, outcome) ==
    IF outcome.kind = "raise" THEN DecodeOf(m, <<>>) ELSE DecodeOf(m, outcome.value)

\* `x = await self.client.request(...)`: an exception raised by the awaited call
\* leaves the method as it is (no try/except anywhere); a value goes on to the decoding
AfterAwait(m, outcome) ==
    IF outcome.kind = "raise" THEN outcome ELSE DecodeOf(m, outcome.value)

----------------------------------------------------------------------------
(* State machine *)

CallIds == 1..NumCalls

Pending == [kind |-> "pending"]

IdleFrame == [pc |-> "idle", method |-> "-", id |-> NoId, kwargs |-> <<>>,
              outcome |-> Pending, result |-> Pending]

\* AsyncEndpoint.__init__ stores the client; BlocksAsyncEndpoint.__init__ hands the
\* same constructor arguments to its nested children endpoint
Init ==
    /\ client = [e \in Endpoints |-> TheClient]
    /\ calls = [c \in CallIds |-> IdleFrame]
    /\ requests = [c \in CallIds |-> <<>>]

\* call arguments: method, positional identifier, **kwargs
Arguments(methods, ids, kwargsSet) ==
    {<<m, id, kwargs>> : m \in methods, id \in ids \cup {NoId}, kwargs \in kwargsSet}

\* a caller invokes a method with arguments from `arguments`: the coroutine runs up
\* to its await, which hands one request to the endpoint's client
Call(c, arguments) ==
    /\ calls[c].pc = "idle"
    /\ \E a \in arguments :
        LET m == a[1]  id == a[2]  kwargs == a[3]
        IN  /\ id \in IdsOf(m)
            /\ calls' = [calls EXCEPT ![c] = [pc |-> "awaiting", method |-> m, id |-> id,
                                              kwargs |-> kwargs, outcome |-> Pending,
                                              result |-> Pending]]
            /\ requests' = [requests EXCEPT ![c] =
                                Append(@, [to |-> client[EndpointOf(m)],
                                           req |-> RequestOf(m, id, kwargs)])]
    /\ UNCHANGED client

\* the client completes the awaited request with a JSON value or an error
ClientRespond(c, outcome) ==
    /\ calls[c].pc = "awaiting"
    /\ calls' = [calls EXCEPT ![c].pc = "ready", ![c].outcome = outcome]
    /\ UNCHANGED <<client, requests>>

\* resume that follows the pagination flag: a reply with has_more set makes the
\* method send a second request for the next page
Resume_follow_cursor(c) ==
    /\ calls[c].pc = "ready"
    /\ calls' = [calls EXCEPT ![c].pc = "done",
                              ![c].result = AfterAwait(calls[c].method, calls[c].outcome)]
    /\ requests' = [requests EXCEPT ![c] =
            IF calls[c].outcome.kind = "return" /\ Get(calls[c].outcome.value, "has_more", FALSE)
            THEN Append(@, @[1]) ELSE @]
    /\ UNCHANGED client

\* resume with the reply kept in one attribute shared by the calls instead of a
\* local: the method decodes the reply of the first call whose request completed
Resume_shared_response(c) ==
    /\ calls[c].pc = "ready"
    /\ LET first == CHOOSE d \in CallIds :
                        /\ calls[d].pc = "ready"
                        /\ \A e \in CallIds : calls[e].pc = "ready" => d <= e
       IN  calls' = [calls EXCEPT ![c].pc = "done",
                                  ![c].result = AfterAwait(calls[c].method, calls[first].outcome)]
    /\ UNCHANGED <<client, requests>>

\* the coroutine is resumed after its await and runs to its return or raise
Resume(c) ==
    /\ calls[c].pc = "ready"
    /\ calls' = [calls EXCEPT ![c].pc = "done",
                              ![c].result = AfterAwait(calls[c].method, calls[c].outcome)]
    /\ UNCHANGED <<client, requests>>

\* one call at a time, any method, any keyword arguments up to MaxKwargs, any reply
Next ==
    \/ Call(1, Arguments(Methods, Ids, KwargsUpTo(MaxKwargs)))
    \/ \E outcome \in Outcomes : ClientRespond(1, outcome)
    \/ Resume(1)

Spec == Init /\ [][Next]_vars

\* inputs of the concurrent specification
ConcMethods == {"blocks.children.append", "blocks.children.list", "databases.create",
                "pages.update", "users.retrieve", "search"}
ConcKwargs == {<<>>} \cup [{"auth", "start_cursor", "children", "bogus"} -> {"v1"}]
ConcOutcomes == {Raised([type |-> "TransportError", args |-> <<"timeout">>]),
                 Returned([type |-> "bot"]), Returned([type |-> "paragraph"]),
                 Returned([has_more |-> TRUE])}

\* NumCalls calls issued concurrently; their steps interleave freely
NextConc ==
    \E c \in CallIds :
        \/ Call(c, Arguments(ConcMethods, {"id1"}, ConcKwargs))
        \/ \E outcome \in ConcOutcomes : ClientRespond(c, outcome)
        \/ Resume(c)

SpecConc == Init /\ [][NextConc]_vars

----------------------------------------------------------------------------
(* Vocabulary of the properties *)

Started(c) == calls[c].pc # "idle"
Done(c) == calls[c].pc = "done"
\* the request the client received from call c
Sent(c) == requests[c][1].req
\* keys of a mapping argument; none when the argument was omitted
KeysIn(arg) == IF arg.tag = "dict" THEN DOMAIN arg.d ELSE {}
\* the call's awaited request returned the JSON object j
Replied(c) == Done(c) /\ calls[c].outcome.kind = "return"
ReplyType(c) == Get(calls[c].outcome.value, "type", None)
Failed(c, errorType) ==
    calls[c].result.kind = "raise" /\ calls[c].result.exc.type = errorType
ReturnedInstance(c, cls) ==
    calls[c].result.kind = "return" /\ calls[c].result.value.cls = cls

\* the field names each method recognizes among its keyword options
Recognized(m) ==
    CASE m = "blocks.children.append" -> {"children"}
      [] m \in {"blocks.children.list", "databases.list", "users.list"} -> {"start_cursor", "page_size"}
      [] m = "databases.create" -> {"start_cursor"}
      [] m = "databases.query" -> {"filter", "sorts", "start_cursor", "page_size"}
      [] m = "pages.create" -> {"parent", "properties", "children"}
      [] m = "pages.update" -> {"archived", "properties"}
      [] m = "search" -> {"query", "sort", "filter", "start_cursor", "page_size"}
      [] OTHER -> {}

----------------------------------------------------------------------------
(* C1: in every request sent, the query and the body hold only keys the method *)
(* recognizes, each with the value the caller gave for it; a key the method    *)
(* does not recognize is in neither; filtering the sent mapping once more by   *)
(* the recognized names leaves it as it is.                                    *)
C1_WhitelistOnly ==
    \A c \in CallIds : Started(c) =>
        \A arg \in {Sent(c).query, Sent(c).body} :
            /\ KeysIn(arg) \subseteq Recognized(calls[c].method) \cap DOMAIN calls[c].kwargs
            /\ \A k \in KeysIn(arg) : arg.d[k] = calls[c].kwargs[k]
            /\ \A k \in DOMAIN calls[c].kwargs \ Recognized(calls[c].method) :
                    k \notin KeysIn(arg)
            /\ arg.tag = "dict" => pick(arg.d, Recognized(calls[c].method)) = arg.d

\* Pages.update called with a recognized and an unrecognized key: only the first is sent
C1_Witness ==
    /\ Started(1) /\ calls[1].method = "pages.update"
    /\ DOMAIN calls[1].kwargs = {"archived", "bogus"}
    /\ Sent(1).body = Dict([archived |-> calls[1].kwargs["archived"]])

(* C2: Databases.query sends a POST to /databases/{database_id}/query whose   *)
(* body is exactly the caller's entries for filter, sorts, start_cursor and    *)
(* page_size, and passes no query parameters.                                 *)
C2_DatabasesQuery ==
    \A c \in CallIds : (Started(c) /\ calls[c].method = "databases.query") =>
        LET fields == {"filter", "sorts", "start_cursor", "page_size"}
            kwargs == calls[c].kwargs
        IN  /\ Sent(c).method = "POST"
            /\ Sent(c).path = <<"/databases/", calls[c].id, "/query">>
            /\ Sent(c).query = NoDict
            /\ Sent(c).body.tag = "dict"
            /\ DOMAIN Sent(c).body.d = fields \cap DOMAIN kwargs
            /\ \A k \in fields \cap DOMAIN kwargs : Sent(c).body.d[k] = kwargs[k]

\* a query with sorts and an unknown key: sorts alone travels in the body
C2_Witness ==
    /\ Started(1) /\ calls[1].method = "databases.query" /\ calls[1].id = "id2"
    /\ DOMAIN calls[1].kwargs = {"sorts", "bogus"}
    /\ DOMAIN Sent(1).body.d = {"sorts"}

(* C3: when its request returns, Blocks.children.append returns an instance   *)
(* of the class BLOCK_MAPPING registers for the reply's type if the type is   *)
(* registered, and raises the decode error, returning nothing, if the type is *)
(* missing or not registered.                                                 *)
C3_BlocksAppendDecode ==
    \A c \in CallIds : (Replied(c) /\ calls[c].method = "blocks.children.append") =>
        IF ReplyType(c) \in DOMAIN BLOCK_MAPPING
        THEN /\ ReturnedInstance(c, BLOCK_MAPPING[ReplyType(c)])
             /\ calls[c].result.value.obj = calls[c].outcome.value
        ELSE Failed(c, "ValueError")

\* append got a reply of an unregistered type and raised
C3_Witness ==
    /\ Replied(1) /\ calls[1].method = "blocks.children.append"
    /\ ReplyType(1) = "robot"
    /\ Failed(1, "ValueError")

(* C4: when its request returns, Users.retrieve returns a BotUser for type    *)
(* "bot", a PersonUser for type "person", and raises the decode error for any *)
(* other type and for a missing type; the variant returned always matches the *)
(* reply's type.                                                              *)
C4_UsersRetrieveDecode ==
    \A c \in CallIds : (Replied(c) /\ calls[c].method = "users.retrieve") =>
        /\ ReplyType(c) = "bot" => ReturnedInstance(c, "BotUser")
        /\ ReplyType(c) = "person" => ReturnedInstance(c, "PersonUser")
        /\ ReplyType(c) \notin {"bot", "person"} => Failed(c, "ValueError")
        /\ ReturnedInstance(c, "BotUser") => ReplyType(c) = "bot"
        /\ ReturnedInstance(c, "PersonUser") => ReplyType(c) = "person"

\* retrieve got a person and returned a PersonUser
C4_Witness ==
    /\ Replied(1) /\ calls[1].method = "users.retrieve"
    /\ ReplyType(1) = "person"
    /\ ReturnedInstance(1, "PersonUser")

(* C5: whenever Blocks.children.append or Users.retrieve raises the decode    *)
(* error, the error carries the reply's type value (the text of None when the *)
(* field is absent) among its arguments.                                      *)
C5_DecodeErrorCarriesType ==
    \A c \in CallIds :
        ( /\ Replied(c)
          /\ calls[c].method \in {"blocks.children.append", "users.retrieve"}
          /\ Failed(c, "ValueError") ) =>
        \E i \in DOMAIN calls[c].result.exc.args :
            calls[c].result.exc.args[i] = Format(ReplyType(c))

(* C6: every invocation hands the client exactly one request over its whole   *)
(* execution: one from the moment it is suspended at its await, still one     *)
(* when it has returned or raised, whatever the reply (an error, or a page    *)
(* with has_more set).                                                        *)
C6_ExactlyOneRequest ==
    \A c \in CallIds :
        Len(requests[c]) = IF Started(c) THEN 1 ELSE 0

\* Databases.list got a page with has_more set and returned it: still one request
C6_Witness ==
    /\ Replied(1) /\ calls[1].method = "databases.list"
    /\ Get(calls[1].outcome.value, "has_more", FALSE)
    /\ calls[1].result.kind = "return"
    /\ Len(requests[1]) = 1

(* C7: when the awaited request raises, the method ends by raising that same  *)
(* error: it returns nothing and raises no decode error in its place.         *)
C7_ClientErrorPropagates ==
    \A c \in CallIds : (Done(c) /\ calls[c].outcome.kind = "raise") =>
        /\ calls[c].result = calls[c].outcome
        /\ calls[c].result.kind = "raise"
        /\ calls[c].result.exc \in ClientErrors

\* Users.retrieve whose request timed out ends with the transport error
C7_Witness ==
    /\ Done(1) /\ calls[1].method = "users.retrieve"
    /\ calls[1].outcome.kind = "raise"
    /\ calls[1].result.exc.type = "TransportError"

(* C8: under every interleaving, the request of a call is the one its own     *)
(* arguments determine, sent to the client given at construction, and its     *)
(* result is the one its own reply determines; a step of one call leaves the  *)
(* frame and the requests of every other call as they were; no step changes   *)
(* an endpoint's client attribute.                                            *)
C8_OwnArgumentsOwnReply ==
    /\ \A e \in Endpoints : client[e] = TheClient
    /\ \A c \in CallIds :
        /\ Started(c) =>
              requests[c] = <<[to |-> TheClient,
                               req |-> RequestOf(calls[c].method, calls[c].id, calls[c].kwargs)]>>
        /\ Done(c) => calls[c].result = AfterAwait(calls[c].method, calls[c].outcome)

C8_StepsAreLocal ==
    /\ client' = client
    /\ \A c, d \in CallIds :
          (c # d /\ <<calls[c], requests[c]>>' # <<calls[c], requests[c]>>) =>
              <<calls[d], requests[d]>>' = <<calls[d], requests[d]>>

\* C8: each call's request and result are functions of its own arguments and reply in
\* every reachable state, every step is local to one call, and client never changes
C8_Isolation == []C8_OwnArgumentsOwnReply /\ [][C8_StepsAreLocal]_vars

\* two calls with different arguments, the second answered and resumed first
C8_Witness ==
    /\ Done(2) /\ calls[1].pc = "ready"
    /\ calls[1].method = "users.retrieve" /\ calls[2].method = "users.retrieve"
    /\ calls[1].kwargs # calls[2].kwargs
    /\ calls[1].outcome.kind = "raise"
    /\ ReturnedInstance(2, "BotUser")

(* C9: every method passes the caller's auth keyword to the request as the    *)
(* auth override (None when the caller gave none) and puts auth in neither    *)
(* the query nor the body; Blocks.children.append included.                   *)
C9_AuthForwarded ==
    \A c \in CallIds : Started(c) =>
        /\ Sent(c).auth = Get(calls[c].kwargs, "auth", None)
        /\ "auth" \notin KeysIn(Sent(c).query) \cup KeysIn(Sent(c).body)

(* C10: a GET request carries its fields as query parameters and has no body; *)
(* a POST or PATCH request carries them as the body and has no query          *)
(* parameters; Databases.create included.                                     *)
C10_ChannelMatchesVerb ==
    \A c \in CallIds : Started(c) =>
        /\ Sent(c).method = "GET" => Sent(c).body = NoDict
        /\ Sent(c).method \in {"POST", "PATCH"} =>
              Sent(c).query = NoDict /\ Sent(c).body.tag = "dict"

====
